---------------------------- MODULE Spec2Model ----------------------------
(***************************************************************************)
(* Model of the three hash table engines of hashmap-rs:                    *)
(*   chaining.rs                 separate chaining                         *)
(*   open_addressing.rs          linear probing with tombstones            *)
(*   open_addressing_compact.rs  linear probing with packed status bits    *)
(* The three tables are driven by the same sequence of calls of the shared *)
(* new/insert/get/delete interface (workloads.rs, HashMapBehavior).        *)
(***************************************************************************)
EXTENDS Integers, Sequences, FiniteSets, TLC

(***************************************************************************)
(* Bounds of the model.                                                    *)
(***************************************************************************)
\* number of calls made with the freely chosen keys
MaxOps == 3
\* number of sequential workload keys (Key1, Key2, ... of the tests)
NumFill == 12
\* number of sequential workload keys that are deleted again
MaxFillDel == 1
\* largest capacity hint passed to new
MaxHint == 33
\* number of keys inserted by a workload that mixes deletes and inserts
NumChurn == 16
\* number of keys such a workload deletes again
MaxChurnDel == 5
\* number of calls with the freely chosen keys made during such a workload
MaxChurnOps == 1
\* number of set_status calls made on one vector of status bytes
MaxSetStatus == 1
\* number of calls made with the keys that share a bucket, and number of
\* workload keys inserted next to them
MaxBucketOps == 3
MaxBucketFill == 1

\* the capacity hint of the tests: HashMap::new(10)
TestHint == 10

(***************************************************************************)
(* Keys, values and the hasher.                                            *)
(***************************************************************************)
\* keys chosen freely by the caller
TestKeys == {1}
\* values chosen freely by the caller
Vals == {1, 2}
\* the i-th key of a sequential workload, format!("Key{i}")
FillKey(i) == 100 + i
\* the value stored with it, format!("Value{i}")
FillValue(i) == 200 + i
FillKeys == {FillKey(i) : i \in 1..NumFill}
ChurnKeys == {FillKey(i) : i \in 1..NumChurn}
\* keys chosen by the caller that fall into one bucket of the first table
BucketKeys == {1, 2}
Keys == TestKeys \cup FillKeys \cup ChurnKeys \cup BucketKeys
Hints == 0..MaxHint

\* DefaultHasher::finish() of a key: a fixed code per key.  The workload
\* keys spread over the table (codes 15, 20, 25, 30, ...: at capacity 16
\* the slots 15, 4, 9, 14, 3, 8, 13, 2, 7, 12, 1, 6, 11, 0, 5, 10).  The
\* freely chosen key has the code of Key1 (15): it collides with Key1 at
\* every capacity, and at capacity 16 its probe sequence wraps from the
\* last slot to slot 0.
HashCode(key) == IF key >= 100 THEN 5 * (key - 100) + 10 ELSE 15 + 16 * (key - 1)

\* fn hash(&self, key): finish() % self.capacity
Hash(self, key) == HashCode(key) % self.capacity

\* Option<V>
None == << >>
Some(v) == <<v>>

\* anyhow::Result<T>
Ok(x) == [ok |-> TRUE, val |-> x]
Err(msg) == [ok |-> FALSE, val |-> msg]

\* const LOAD_FACTOR_LIMIT: f64 = 0.7, as the ratio 7 / 10
LOAD_FACTOR_NUM == 7
LOAD_FACTOR_DEN == 10

\* get_load_factor() >= LOAD_FACTOR_LIMIT with the limit mistaken for 0.8
LoadFactorReachedLate(self) ==
    LOAD_FACTOR_DEN * self.size >= (LOAD_FACTOR_NUM + 1) * self.capacity

\* get_load_factor() >= LOAD_FACTOR_LIMIT: size / capacity >= 0.7.  With a
\* power-of-two capacity the quotient is exact in f64, so the comparison is
\* the integer comparison 10 * size >= 7 * capacity.
LoadFactorReached(self) ==
    LOAD_FACTOR_DEN * self.size >= LOAD_FACTOR_NUM * self.capacity

\* usize::next_power_of_two
RECURSIVE PowerOfTwoFrom(_, _)
PowerOfTwoFrom(p, n) == IF p >= n THEN p ELSE PowerOfTwoFrom(2 * p, n)
NextPowerOfTwo(n) == PowerOfTwoFrom(1, n)

\* HashMap::new without next_power_of_two: 16.max(capacity)
InitialCapacityUnrounded(hint) == IF hint > 16 THEN hint ELSE 16

\* 16.max(capacity.next_power_of_two())
MIN_CAPACITY == 16
InitialCapacity(hint) ==
    IF NextPowerOfTwo(hint) > MIN_CAPACITY THEN NextPowerOfTwo(hint)
    ELSE MIN_CAPACITY

(***************************************************************************)
(* open_addressing.rs: the probing table.                                  *)
(***************************************************************************)
\* enum Entry<K, V>
Empty == <<"Empty">>
Deleted(k) == <<"Deleted", k>>
Occupied(k, v) == <<"Occupied", k, v>>

\* HashMap::new
OaNew(hint) ==
    [data |-> [i \in 0..(InitialCapacity(hint) - 1) |-> Empty],
     capacity |-> InitialCapacity(hint),
     size |-> 0]

\* the loop of HashMap::get, from current_index on
RECURSIVE OaGetLoop(_, _, _, _)
OaGetLoop(self, key, index, current_index) ==
    IF current_index \notin DOMAIN self.data
    THEN Err("cannot be found")
    ELSE LET e == self.data[current_index]
             next_index == (current_index + 1) % self.capacity
         IN  IF e[1] = "Empty" THEN Ok(None)
             ELSE IF e[1] = "Occupied" /\ e[2] = key THEN Ok(Some(e[3]))
             ELSE IF next_index = index THEN Ok(None)
             ELSE OaGetLoop(self, key, index, next_index)

\* HashMap::get
OaGet(self, key) == OaGetLoop(self, key, Hash(self, key), Hash(self, key))

\* the inner while loop of HashMap::resize: the first slot from index on
\* that is not Occupied
RECURSIVE OaFreeSlot(_, _)
OaFreeSlot(self, index) ==
    IF index \in DOMAIN self.data /\ self.data[index][1] = "Occupied"
    THEN OaFreeSlot(self, (index + 1) % self.capacity)
    ELSE index

\* the for loop of HashMap::resize that copies every slot of old_data
\* that is not Empty, tombstones included, to the free slot its key
\* probes to
RECURSIVE OaRehashKeepsDeleted(_, _, _)
OaRehashKeepsDeleted(self, old_data, i) ==
    IF i \notin DOMAIN old_data THEN self
    ELSE IF old_data[i][1] # "Empty"
    THEN OaRehashKeepsDeleted(
            [self EXCEPT !.data[OaFreeSlot(self, Hash(self, old_data[i][2]))] =
                             old_data[i]],
            old_data, i + 1)
    ELSE OaRehashKeepsDeleted(self, old_data, i + 1)

\* the for loop of HashMap::resize over old_data[i..]
RECURSIVE OaRehash(_, _, _)
OaRehash(self, old_data, i) ==
    IF i \notin DOMAIN old_data THEN self
    ELSE IF old_data[i][1] = "Occupied"
    THEN OaRehash(
            [self EXCEPT !.data[OaFreeSlot(self, Hash(self, old_data[i][2]))] =
                             Occupied(old_data[i][2], old_data[i][3])],
            old_data, i + 1)
    ELSE OaRehash(self, old_data, i + 1)

\* HashMap::resize with `old_capacity << 2` for `old_capacity << 1`
OaResizeQuadruples(self) ==
    OaRehash([data |-> [i \in 0..(4 * self.capacity - 1) |-> Empty],
              capacity |-> 4 * self.capacity,
              size |-> self.size],
             self.data, 0)

\* HashMap::resize
OaResize(self) ==
    OaRehash([data |-> [i \in 0..(2 * self.capacity - 1) |-> Empty],
              capacity |-> 2 * self.capacity,
              size |-> self.size],
             self.data, 0)

\* the loop of HashMap::insert that writes only the value into a tombstone
\* and keeps the key the tombstone remembers
RECURSIVE OaInsertLoopRevivesKey(_, _, _, _, _)
OaInsertLoopRevivesKey(self, key, value, index, current_index) ==
    IF current_index \notin DOMAIN self.data
    THEN [ok |-> FALSE, self |-> self]
    ELSE LET e == self.data[current_index]
             next_index == (current_index + 1) % self.capacity
         IN  IF e[1] = "Empty" \/ e[1] = "Deleted"
             THEN [ok |-> TRUE,
                   self |-> [self EXCEPT
                                !.data[current_index] =
                                    Occupied(IF e[1] = "Deleted" THEN e[2] ELSE key, value),
                                !.size = self.size + 1]]
             ELSE IF next_index = index
             THEN [ok |-> FALSE, self |-> self]
             ELSE OaInsertLoopRevivesKey(self, key, value, index, next_index)

\* the loop of HashMap::insert with the arm `Entry::Empty` for the arm
\* `Entry::Empty | Entry::Deleted(_)`: a tombstone is stepped over
RECURSIVE OaInsertLoopSkipsDeleted(_, _, _, _, _)
OaInsertLoopSkipsDeleted(self, key, value, index, current_index) ==
    IF current_index \notin DOMAIN self.data
    THEN [ok |-> FALSE, self |-> self]
    ELSE LET e == self.data[current_index]
             next_index == (current_index + 1) % self.capacity
         IN  IF e[1] = "Empty"
             THEN [ok |-> TRUE,
                   self |-> [self EXCEPT !.data[current_index] = Occupied(key, value),
                                         !.size = self.size + 1]]
             ELSE IF next_index = index
             THEN [ok |-> FALSE, self |-> self]
             ELSE OaInsertLoopSkipsDeleted(self, key, value, index, next_index)

\* the loop of HashMap::insert, from current_index on; the result carries
\* the table as the call leaves it
RECURSIVE OaInsertLoop(_, _, _, _, _)
OaInsertLoop(self, key, value, index, current_index) ==
    IF current_index \notin DOMAIN self.data
    THEN [ok |-> FALSE, self |-> self]
    ELSE LET e == self.data[current_index]
             next_index == (current_index + 1) % self.capacity
         IN  IF e[1] = "Empty" \/ e[1] = "Deleted"
             THEN [ok |-> TRUE,
                   self |-> [self EXCEPT !.data[current_index] = Occupied(key, value),
                                         !.size = self.size + 1]]
             ELSE IF next_index = index
             THEN [ok |-> FALSE, self |-> self]
             ELSE OaInsertLoop(self, key, value, index, next_index)

\* HashMap::insert
OaInsert(self, key, value) ==
    LET t == IF LoadFactorReached(self) THEN OaResize(self) ELSE self
    IN  OaInsertLoop(t, key, value, Hash(t, key), Hash(t, key))

\* the loop of HashMap::delete that leaves Entry::Empty, not a tombstone,
\* in the slot of the key
RECURSIVE OaDeleteLoopEmpties(_, _, _, _)
OaDeleteLoopEmpties(self, key, index, current_index) ==
    IF current_index \notin DOMAIN self.data
    THEN [ok |-> FALSE, self |-> self]
    ELSE LET e == self.data[current_index]
             next_index == (current_index + 1) % self.capacity
         IN  IF e[1] = "Empty" THEN [ok |-> TRUE, self |-> self]
             ELSE IF e[1] = "Deleted" /\ e[2] = key
             THEN [ok |-> TRUE, self |-> self]
             ELSE IF e[1] = "Occupied" /\ e[2] = key
             THEN [ok |-> TRUE,
                   self |-> [self EXCEPT !.data[current_index] = Empty,
                                         !.size = self.size - 1]]
             ELSE IF next_index = index
             THEN [ok |-> FALSE, self |-> self]
             ELSE OaDeleteLoopEmpties(self, key, index, next_index)

\* the loop of HashMap::delete with `self.size -= 1` also on the path that
\* bails out after a full cycle
RECURSIVE OaDeleteLoopCountsFailure(_, _, _, _)
OaDeleteLoopCountsFailure(self, key, index, current_index) ==
    IF current_index \notin DOMAIN self.data
    THEN [ok |-> FALSE, self |-> self]
    ELSE LET e == self.data[current_index]
             next_index == (current_index + 1) % self.capacity
         IN  IF e[1] = "Empty" THEN [ok |-> TRUE, self |-> self]
             ELSE IF e[1] = "Deleted" /\ e[2] = key
             THEN [ok |-> TRUE, self |-> self]
             ELSE IF e[1] = "Occupied" /\ e[2] = key
             THEN [ok |-> TRUE,
                   self |-> [self EXCEPT !.data[current_index] = Deleted(key),
                                         !.size = self.size - 1]]
             ELSE IF next_index = index
             THEN [ok |-> FALSE, self |-> [self EXCEPT !.size = self.size - 1]]
             ELSE OaDeleteLoopCountsFailure(self, key, index, next_index)

\* the loop of HashMap::delete, from current_index on
RECURSIVE OaDeleteLoop(_, _, _, _)
OaDeleteLoop(self, key, index, current_index) ==
    IF current_index \notin DOMAIN self.data
    THEN [ok |-> FALSE, self |-> self]
    ELSE LET e == self.data[current_index]
             next_index == (current_index + 1) % self.capacity
         IN  IF e[1] = "Empty" THEN [ok |-> TRUE, self |-> self]
             ELSE IF e[1] = "Deleted" /\ e[2] = key
             THEN [ok |-> TRUE, self |-> self]
             ELSE IF e[1] = "Occupied" /\ e[2] = key
             THEN [ok |-> TRUE,
                   self |-> [self EXCEPT !.data[current_index] = Deleted(key),
                                         !.size = self.size - 1]]
             ELSE IF next_index = index
             THEN [ok |-> FALSE, self |-> self]
             ELSE OaDeleteLoop(self, key, index, next_index)

\* HashMap::delete
OaDelete(self, key) == OaDeleteLoop(self, key, Hash(self, key), Hash(self, key))

\* the number of slots the loop of HashMap::get examines, `examined` of
\* them before current_index; the count stops one past the capacity.
\* Here without the test `current_index == index` that ends a full cycle.
RECURSIVE OaGetProbesNoCycleCheck(_, _, _, _, _)
OaGetProbesNoCycleCheck(self, key, index, current_index, examined) ==
    IF examined > self.capacity \/ current_index \notin DOMAIN self.data
    THEN examined
    ELSE LET e == self.data[current_index]
             next_index == (current_index + 1) % self.capacity
         IN  IF e[1] = "Empty" THEN examined + 1
             ELSE IF e[1] = "Occupied" /\ e[2] = key THEN examined + 1
             ELSE OaGetProbesNoCycleCheck(self, key, index, next_index, examined + 1)

\* the number of slots the loop of HashMap::get examines, `examined` of
\* them before current_index; the count stops one past the capacity
RECURSIVE OaGetProbes(_, _, _, _, _)
OaGetProbes(self, key, index, current_index, examined) ==
    IF examined > self.capacity \/ current_index \notin DOMAIN self.data
    THEN examined
    ELSE LET e == self.data[current_index]
             next_index == (current_index + 1) % self.capacity
         IN  IF e[1] = "Empty" THEN examined + 1
             ELSE IF e[1] = "Occupied" /\ e[2] = key THEN examined + 1
             ELSE IF next_index = index THEN examined + 1
             ELSE OaGetProbes(self, key, index, next_index, examined + 1)

\* the number of slots the loop of HashMap::delete examines
RECURSIVE OaDeleteProbes(_, _, _, _, _)
OaDeleteProbes(self, key, index, current_index, examined) ==
    IF examined > self.capacity \/ current_index \notin DOMAIN self.data
    THEN examined
    ELSE LET e == self.data[current_index]
             next_index == (current_index + 1) % self.capacity
         IN  IF e[1] = "Empty" THEN examined + 1
             ELSE IF e[1] \in {"Deleted", "Occupied"} /\ e[2] = key THEN examined + 1
             ELSE IF next_index = index THEN examined + 1
             ELSE OaDeleteProbes(self, key, index, next_index, examined + 1)

(***************************************************************************)
(* main.rs: the standalone probing table.  Its struct and its get, insert  *)
(* and delete loops are those of open_addressing.rs line for line; new and *)
(* resize differ.                                                          *)
(***************************************************************************)
\* HashMap::new: the capacity is the hint as given
MainNew(hint) ==
    [data |-> [i \in 0..(hint - 1) |-> Empty],
     capacity |-> hint,
     size |-> 0]

\* HashMap::get
MainGet(self, key) == OaGetLoop(self, key, Hash(self, key), Hash(self, key))

\* HashMap::resize: the first drain(..) moves every entry out of self.data,
\* the second one, whose result shadows the first, collects the entries of
\* the vector that is now empty; the for loop runs over those
MainResize(self) ==
    LET old_entries == << >>
    IN  OaRehash([data |-> [i \in 0..(2 * self.capacity - 1) |-> Empty],
                  capacity |-> 2 * self.capacity,
                  size |-> self.size],
                 old_entries, 0)

\* HashMap::insert
MainInsert(self, key, value) ==
    LET t == IF LoadFactorReached(self) THEN MainResize(self) ELSE self
    IN  OaInsertLoop(t, key, value, Hash(t, key), Hash(t, key))

\* HashMap::delete
MainDelete(self, key) == OaDeleteLoop(self, key, Hash(self, key), Hash(self, key))

(***************************************************************************)
(* open_addressing_compact.rs: the compact probing table.                  *)
(***************************************************************************)
\* 2 bits per entry: 00 = empty, 01 = deleted, 11 = occupied
EMPTY == 0
DELETED == 1
OCCUPIED == 3

\* K::default(), V::default(): the placeholder of an unused entry
DefaultKey == 0
DefaultValue == 0

\* u8 arithmetic: a >> n, a << n (bits above the eighth are lost), a & b,
\* a | b and !a
RECURSIVE Pow2(_)
Pow2(n) == IF n = 0 THEN 1 ELSE 2 * Pow2(n - 1)
Shr(a, n) == a \div Pow2(n)
Shl(a, n) == (a * Pow2(n)) % 256
RECURSIVE BitAnd(_, _)
BitAnd(a, b) ==
    IF a = 0 \/ b = 0 THEN 0
    ELSE (a % 2) * (b % 2) + 2 * BitAnd(a \div 2, b \div 2)
RECURSIVE BitOr(_, _)
BitOr(a, b) ==
    IF a = 0 THEN b
    ELSE IF b = 0 THEN a
    ELSE (IF a % 2 = 1 \/ b % 2 = 1 THEN 1 ELSE 0) + 2 * BitOr(a \div 2, b \div 2)
BitNot(a) == 255 - a

\* the status code of slot index in a vector of status bytes
StatusOf(bits, index) == BitAnd(Shr(bits[index \div 4], (index % 4) * 2), 3)

\* HashMap::get_status
GetStatus(self, index) == StatusOf(self.status_bits, index)

\* HashMap::set_status without the statement that clears the two bits
SetStatusNoClear(self, index, status) ==
    LET byte_idx == index \div 4
        bit_offset == (index % 4) * 2
    IN  [self EXCEPT !.status_bits[byte_idx] =
                         BitOr(self.status_bits[byte_idx],
                               Shl(BitAnd(status, 3), bit_offset))]

\* HashMap::set_status: clear the two bits, then set the new status
SetStatus(self, index, status) ==
    LET byte_idx == index \div 4
        bit_offset == (index % 4) * 2
        cleared == BitAnd(self.status_bits[byte_idx], BitNot(Shl(3, bit_offset)))
    IN  [self EXCEPT !.status_bits[byte_idx] =
                         BitOr(cleared, Shl(BitAnd(status, 3), bit_offset))]

\* HashMap::new
CNew(hint) ==
    [status_bits |-> [i \in 0..(((InitialCapacity(hint) + 3) \div 4) - 1) |-> 0],
     entries |-> [i \in 0..(InitialCapacity(hint) - 1) |-> <<DefaultKey, DefaultValue>>],
     capacity |-> InitialCapacity(hint),
     size |-> 0]

\* the loop of HashMap::get, from current_index on
RECURSIVE CGetLoop(_, _, _, _)
CGetLoop(self, key, index, current_index) ==
    LET st == GetStatus(self, current_index)
        next_index == (current_index + 1) % self.capacity
    IN  IF st = EMPTY THEN Ok(None)
        ELSE IF st = OCCUPIED /\ self.entries[current_index][1] = key
        THEN Ok(Some(self.entries[current_index][2]))
        ELSE IF st \notin {OCCUPIED, DELETED}
        THEN [ok |-> FALSE, val |-> "Invalid status bits", panic |-> TRUE]
        ELSE IF next_index = index THEN Ok(None)
        ELSE CGetLoop(self, key, index, next_index)

\* HashMap::get
CGet(self, key) == CGetLoop(self, key, Hash(self, key), Hash(self, key))

\* the while loop of HashMap::resize: the first slot of new_status from
\* new_index on that is not OCCUPIED
RECURSIVE CFreeSlot(_, _, _)
CFreeSlot(new_status, new_capacity, new_index) ==
    IF StatusOf(new_status, new_index) = OCCUPIED
    THEN CFreeSlot(new_status, new_capacity, (new_index + 1) % new_capacity)
    ELSE new_index

\* the for loop of HashMap::resize with the bit offset `new_index % 4`
\* for `(new_index % 4) * 2`
RECURSIVE CRehashMisaligned(_, _, _, _)
CRehashMisaligned(self, new, old_capacity, i) ==
    IF i >= old_capacity THEN new
    ELSE IF GetStatus(self, i) = OCCUPIED
    THEN LET new_index == CFreeSlot(new.status_bits, new.capacity,
                                    HashCode(self.entries[i][1]) % new.capacity)
             byte_idx == new_index \div 4
             bit_offset == new_index % 4
         IN  CRehashMisaligned(self,
                     [new EXCEPT !.entries[new_index] = self.entries[i],
                                 !.status_bits[byte_idx] =
                                     BitOr(new.status_bits[byte_idx],
                                           Shl(OCCUPIED, bit_offset))],
                     old_capacity, i + 1)
    ELSE CRehashMisaligned(self, new, old_capacity, i + 1)

\* the for loop of HashMap::resize over the old slots i.., filling
\* new = [status_bits, entries, capacity]; self still holds the old arrays
RECURSIVE CRehash(_, _, _, _)
CRehash(self, new, old_capacity, i) ==
    IF i >= old_capacity THEN new
    ELSE IF GetStatus(self, i) = OCCUPIED
    THEN LET new_index == CFreeSlot(new.status_bits, new.capacity,
                                    HashCode(self.entries[i][1]) % new.capacity)
             byte_idx == new_index \div 4
             bit_offset == (new_index % 4) * 2
         IN  CRehash(self,
                     [new EXCEPT !.entries[new_index] = self.entries[i],
                                 !.status_bits[byte_idx] =
                                     BitOr(new.status_bits[byte_idx],
                                           Shl(OCCUPIED, bit_offset))],
                     old_capacity, i + 1)
    ELSE CRehash(self, new, old_capacity, i + 1)

\* HashMap::resize
CResize(self) ==
    LET new_capacity == self.capacity * 2
        new_status_size == (new_capacity + 3) \div 4
        filled == CRehash(self,
                          [status_bits |-> [i \in 0..(new_status_size - 1) |-> 0],
                           entries |-> [i \in 0..(new_capacity - 1) |->
                                            <<DefaultKey, DefaultValue>>],
                           capacity |-> new_capacity],
                          self.capacity, 0)
    IN  [status_bits |-> filled.status_bits,
         entries |-> filled.entries,
         capacity |-> new_capacity,
         size |-> self.size]

\* HashMap::insert whose OCCUPIED arm returns without storing the value
RECURSIVE CInsertLoopKeepsValue(_, _, _, _, _)
CInsertLoopKeepsValue(self, key, value, index, current_index) ==
    LET st == GetStatus(self, current_index)
        next_index == (current_index + 1) % self.capacity
    IN  IF st = EMPTY \/ st = DELETED
        THEN [ok |-> TRUE, panic |-> FALSE,
              self |-> [SetStatus([self EXCEPT !.entries[current_index] = <<key, value>>],
                                  current_index, OCCUPIED)
                        EXCEPT !.size = self.size + 1]]
        ELSE IF st = OCCUPIED /\ self.entries[current_index][1] = key
        THEN [ok |-> TRUE, panic |-> FALSE, self |-> self]
        ELSE IF st # OCCUPIED
        THEN [ok |-> FALSE, panic |-> TRUE, self |-> self]
        ELSE IF next_index = index
        THEN [ok |-> FALSE, panic |-> FALSE, self |-> self]
        ELSE CInsertLoopKeepsValue(self, key, value, index, next_index)

\* the loop of HashMap::insert, from current_index on
RECURSIVE CInsertLoop(_, _, _, _, _)
CInsertLoop(self, key, value, index, current_index) ==
    LET st == GetStatus(self, current_index)
        next_index == (current_index + 1) % self.capacity
    IN  IF st = EMPTY \/ st = DELETED
        THEN [ok |-> TRUE, panic |-> FALSE,
              self |-> [SetStatus([self EXCEPT !.entries[current_index] = <<key, value>>],
                                  current_index, OCCUPIED)
                        EXCEPT !.size = self.size + 1]]
        ELSE IF st = OCCUPIED /\ self.entries[current_index][1] = key
        THEN [ok |-> TRUE, panic |-> FALSE,
              self |-> [self EXCEPT !.entries[current_index][2] = value]]
        ELSE IF st # OCCUPIED
        THEN [ok |-> FALSE, panic |-> TRUE, self |-> self]
        ELSE IF next_index = index
        THEN [ok |-> FALSE, panic |-> FALSE, self |-> self]
        ELSE CInsertLoop(self, key, value, index, next_index)

\* HashMap::insert
CInsert(self, key, value) ==
    LET t == IF LoadFactorReached(self) THEN CResize(self) ELSE self
    IN  CInsertLoop(t, key, value, Hash(t, key), Hash(t, key))

\* the loop of HashMap::delete without the statement `self.size -= 1`
RECURSIVE CDeleteLoopKeepsSize(_, _, _, _)
CDeleteLoopKeepsSize(self, key, index, current_index) ==
    LET st == GetStatus(self, current_index)
        next_index == (current_index + 1) % self.capacity
    IN  IF st = EMPTY THEN [ok |-> TRUE, panic |-> FALSE, self |-> self]
        ELSE IF st = OCCUPIED /\ self.entries[current_index][1] = key
        THEN [ok |-> TRUE, panic |-> FALSE,
              self |-> SetStatus(self, current_index, DELETED)]
        ELSE IF st \notin {OCCUPIED, DELETED}
        THEN [ok |-> FALSE, panic |-> TRUE, self |-> self]
        ELSE IF next_index = index
        THEN [ok |-> FALSE, panic |-> FALSE, self |-> self]
        ELSE CDeleteLoopKeepsSize(self, key, index, next_index)

\* the loop of HashMap::delete, from current_index on
RECURSIVE CDeleteLoop(_, _, _, _)
CDeleteLoop(self, key, index, current_index) ==
    LET st == GetStatus(self, current_index)
        next_index == (current_index + 1) % self.capacity
    IN  IF st = EMPTY THEN [ok |-> TRUE, panic |-> FALSE, self |-> self]
        ELSE IF st = OCCUPIED /\ self.entries[current_index][1] = key
        THEN [ok |-> TRUE, panic |-> FALSE,
              self |-> [SetStatus(self, current_index, DELETED)
                        EXCEPT !.size = self.size - 1]]
        ELSE IF st \notin {OCCUPIED, DELETED}
        THEN [ok |-> FALSE, panic |-> TRUE, self |-> self]
        ELSE IF next_index = index
        THEN [ok |-> FALSE, panic |-> FALSE, self |-> self]
        ELSE CDeleteLoop(self, key, index, next_index)

\* HashMap::delete
CDelete(self, key) == CDeleteLoop(self, key, Hash(self, key), Hash(self, key))

\* the number of slots examined by a loop of HashMap::get whose DELETED
\* arm returns like the EMPTY arm
RECURSIVE CGetProbesStopsAtDeleted(_, _, _, _, _)
CGetProbesStopsAtDeleted(self, key, index, current_index, examined) ==
    IF examined > self.capacity THEN examined
    ELSE LET st == GetStatus(self, current_index)
             next_index == (current_index + 1) % self.capacity
         IN  IF st = EMPTY \/ st = DELETED THEN examined + 1
             ELSE IF st = OCCUPIED /\ self.entries[current_index][1] = key
             THEN examined + 1
             ELSE IF st # OCCUPIED THEN examined + 1
             ELSE IF next_index = index THEN examined + 1
             ELSE CGetProbesStopsAtDeleted(self, key, index, next_index, examined + 1)

\* the number of slots the loop of HashMap::get examines, `examined` of
\* them before current_index; the count stops one past the capacity
RECURSIVE CGetProbes(_, _, _, _, _)
CGetProbes(self, key, index, current_index, examined) ==
    IF examined > self.capacity THEN examined
    ELSE LET st == GetStatus(self, current_index)
             next_index == (current_index + 1) % self.capacity
         IN  IF st = EMPTY THEN examined + 1
             ELSE IF st = OCCUPIED /\ self.entries[current_index][1] = key
             THEN examined + 1
             ELSE IF st \notin {OCCUPIED, DELETED} THEN examined + 1
             ELSE IF next_index = index THEN examined + 1
             ELSE CGetProbes(self, key, index, next_index, examined + 1)

\* the number of slots the loop of HashMap::delete examines: it stops at
\* the same slots as that of get
CDeleteProbes(self, key, index, current_index, examined) ==
    CGetProbes(self, key, index, current_index, examined)

(***************************************************************************)
(* chaining.rs: the chained table.  A LinkedList is the sequence of its    *)
(* (key, value) nodes from head to tail.                                   *)
(***************************************************************************)
\* LinkedList::get: the first node with the key
RECURSIVE ListGet(_, _)
ListGet(list, key) ==
    IF list = << >> THEN Ok(None)
    ELSE IF Head(list)[1] = key THEN Ok(Some(Head(list)[2]))
    ELSE ListGet(Tail(list), key)

\* LinkedList::insert that leaves the value of a node it finds as it was
RECURSIVE ListInsertKeepsValue(_, _, _)
ListInsertKeepsValue(list, key, value) ==
    IF list = << >> THEN [list |-> << <<key, value>> >>, new |-> TRUE]
    ELSE IF Head(list)[1] = key THEN [list |-> list, new |-> FALSE]
    ELSE LET r == ListInsertKeepsValue(Tail(list), key, value)
         IN  [list |-> << Head(list) >> \o r.list, new |-> r.new]

\* LinkedList::insert: [list, new], new = true when a node was appended
RECURSIVE ListInsert(_, _, _)
ListInsert(list, key, value) ==
    IF list = << >> THEN [list |-> << <<key, value>> >>, new |-> TRUE]
    ELSE IF Head(list)[1] = key
    THEN [list |-> << <<key, value>> >> \o Tail(list), new |-> FALSE]
    ELSE LET r == ListInsert(Tail(list), key, value)
         IN  [list |-> << Head(list) >> \o r.list, new |-> r.new]

\* LinkedList::delete that fills the place of the node it removes with
\* the last node of the list
RECURSIVE ListDeleteSwapRemove(_, _)
ListDeleteSwapRemove(list, key) ==
    IF list = << >> THEN << >>
    ELSE IF Head(list)[1] = key
    THEN (IF Len(list) = 1 THEN << >>
          ELSE << list[Len(list)] >> \o SubSeq(list, 2, Len(list) - 1))
    ELSE << Head(list) >> \o ListDeleteSwapRemove(Tail(list), key)

\* LinkedList::delete: splices out the first node with the key
RECURSIVE ListDelete(_, _)
ListDelete(list, key) ==
    IF list = << >> THEN << >>
    ELSE IF Head(list)[1] = key THEN Tail(list)
    ELSE << Head(list) >> \o ListDelete(Tail(list), key)

\* HashMap::new
ChNew(hint) ==
    [buckets |-> [i \in 0..(InitialCapacity(hint) - 1) |-> << >>],
     size |-> 0,
     capacity |-> InitialCapacity(hint)]

\* HashMap::get
ChGet(self, key) == ListGet(self.buckets[Hash(self, key)], key)

RECURSIVE ChInsert(_, _, _)
RECURSIVE ChResize(_)

\* the two for loops of HashMap::resize: self.insert of the nodes of
\* old_buckets[i] from its j-th node on, then of the following buckets
RECURSIVE ChReinsert(_, _, _, _)
ChReinsert(self, old_buckets, i, j) ==
    IF i \notin DOMAIN old_buckets THEN self
    ELSE IF j > Len(old_buckets[i]) THEN ChReinsert(self, old_buckets, i + 1, 1)
    ELSE ChReinsert(ChInsert(self, old_buckets[i][j][1], old_buckets[i][j][2]).self,
                    old_buckets, i, j + 1)

\* HashMap::resize that moves the old buckets to the front of the new
\* vector as they are, without re-inserting their nodes
ChResizeNoRehash(self) ==
    [buckets |-> [i \in 0..(self.capacity * 2 - 1) |->
                     IF i < self.capacity THEN self.buckets[i] ELSE << >>],
     size |-> self.size,
     capacity |-> self.capacity * 2]

\* HashMap::resize
ChResize(self) ==
    ChReinsert([buckets |-> [i \in 0..(self.capacity * 2 - 1) |-> << >>],
                size |-> 0,
                capacity |-> self.capacity * 2],
               self.buckets, 0, 1)

\* HashMap::insert
ChInsert(self, key, value) ==
    LET t == IF LoadFactorReached(self) THEN ChResize(self) ELSE self
        index == Hash(t, key)
    IN  IF index \notin DOMAIN t.buckets THEN [ok |-> TRUE, self |-> t]
        ELSE LET result == ListInsert(t.buckets[index], key, value)
             IN  [ok |-> TRUE,
                  self |-> [t EXCEPT !.buckets[index] = result.list,
                                     !.size = IF result.new THEN t.size + 1 ELSE t.size]]

\* HashMap::delete with a `self.size -= 1` that runs whether or not the
\* bucket held the key
ChDeleteCountsAbsent(self, key) ==
    LET index == Hash(self, key)
    IN  IF index \notin DOMAIN self.buckets THEN [ok |-> TRUE, self |-> self]
        ELSE [ok |-> TRUE,
              self |-> [self EXCEPT !.buckets[index] = ListDelete(self.buckets[index], key),
                                    !.size = self.size - 1]]

\* HashMap::delete
ChDelete(self, key) ==
    LET index == Hash(self, key)
    IN  IF index \notin DOMAIN self.buckets THEN [ok |-> TRUE, self |-> self]
        ELSE [ok |-> TRUE,
              self |-> [self EXCEPT !.buckets[index] = ListDelete(self.buckets[index], key)]]

(***************************************************************************)
(* The state: one table of each engine, all three receiving the same calls *)
(* (workloads.rs: HashMapBehavior), and what the caller has observed.      *)
(***************************************************************************)
VARIABLES
    probing,    \* open_addressing::HashMap: [data, capacity, size]
    compact,    \* open_addressing_compact::HashMap: [status_bits, entries, capacity, size]
    chained,    \* chaining::HashMap: [buckets, size, capacity]
    last,       \* the last call: its name, arguments, results and the sizes before it
    written,    \* per engine and key, the value the caller expects to read back
    ops,        \* calls made so far with the freely chosen keys
    nfill,      \* workload keys inserted so far: Key1 .. Key<nfill>
    ndel        \* workload keys deleted so far: Key1 .. Key<ndel>

vars == <<probing, compact, chained, last, written, ops, nfill, ndel>>

Engines == {"probing", "compact", "chained"}

\* the sizes and capacities of the three tables
Sizes == [probing |-> probing.size, compact |-> compact.size, chained |-> chained.size]
Capacities ==
    [probing |-> probing.capacity, compact |-> compact.capacity,
     chained |-> chained.capacity]

\* HashMapBehavior::new(hint) on the three engines: the state after
\* construction
New(hint) ==
    /\ probing = OaNew(hint)
    /\ compact = CNew(hint)
    /\ chained = ChNew(hint)
    /\ last = [op |-> "new", key |-> hint, value |-> 0,
               ok |-> [e \in Engines |-> TRUE],
               size0 |-> [e \in Engines |-> 0],
               capacity0 |-> [e \in Engines |-> 0],
               resized |-> [e \in Engines |-> FALSE]]
    /\ written = [e \in Engines |-> [k \in Keys |-> None]]
    /\ ops = 0
    /\ nfill = 0
    /\ ndel = 0

\* the tests' table: HashMap::new(10)
Init == New(TestHint)

\* a table made with any capacity hint
InitNew == \E hint \in Hints : New(hint)

\* HashMapBehavior::insert(key, value) on the three engines
DoInsert(key, value) ==
    LET rp == OaInsert(probing, key, value)
        rc == CInsert(compact, key, value)
        rh == ChInsert(chained, key, value)
    IN  /\ probing' = rp.self
        /\ compact' = rc.self
        /\ chained' = rh.self
        /\ last' = [op |-> "insert", key |-> key, value |-> value,
                    ok |-> [probing |-> rp.ok, compact |-> rc.ok, chained |-> rh.ok],
                    size0 |-> Sizes,
                    capacity0 |-> Capacities,
                    resized |-> [probing |-> LoadFactorReached(probing),
                                 compact |-> LoadFactorReached(compact),
                                 chained |-> LoadFactorReached(chained)]]
        /\ written' =
               [probing |-> [written.probing EXCEPT
                                 ![key] = IF rp.ok THEN Some(value) ELSE None],
                compact |-> [k \in Keys |->
                                 IF k = key THEN (IF rc.ok THEN Some(value) ELSE None)
                                 ELSE IF LoadFactorReached(compact) THEN None
                                 ELSE written.compact[k]],
                chained |-> [written.chained EXCEPT ![key] = Some(value)]]

\* HashMapBehavior::delete(key) on the three engines
DoDelete(key) ==
    LET rp == OaDelete(probing, key)
        rc == CDelete(compact, key)
        rh == ChDelete(chained, key)
    IN  /\ probing' = rp.self
        /\ compact' = rc.self
        /\ chained' = rh.self
        /\ last' = [op |-> "delete", key |-> key, value |-> 0,
                    ok |-> [probing |-> rp.ok, compact |-> rc.ok, chained |-> rh.ok],
                    size0 |-> Sizes,
                    capacity0 |-> Capacities,
                    resized |-> [e \in Engines |-> FALSE]]
        /\ written' = [e \in Engines |-> [written[e] EXCEPT ![key] = None]]

\* a call of insert with a freely chosen key and value
Insert ==
    \E key \in TestKeys, value \in Vals :
        /\ ops < MaxOps
        /\ DoInsert(key, value)
        /\ ops' = ops + 1
        /\ UNCHANGED <<nfill, ndel>>

\* a call of delete with a freely chosen key
Delete ==
    \E key \in TestKeys :
        /\ ops < MaxOps
        /\ DoDelete(key)
        /\ ops' = ops + 1
        /\ UNCHANGED <<nfill, ndel>>

\* the insert loop of the tests: map.insert(Key_i, Value_i) for the next i
FillInsert ==
    /\ nfill < NumFill
    /\ DoInsert(FillKey(nfill + 1), FillValue(nfill + 1))
    /\ nfill' = nfill + 1
    /\ UNCHANGED <<ops, ndel>>

\* a delete loop over the workload keys, oldest first: map.delete(Key_i)
FillDelete ==
    /\ ndel < nfill
    /\ ndel < MaxFillDel
    /\ DoDelete(FillKey(ndel + 1))
    /\ ndel' = ndel + 1
    /\ UNCHANGED <<ops, nfill>>

Next == Insert \/ Delete \/ FillInsert \/ FillDelete

Spec == Init /\ [][Next]_vars

\* the same calls on tables made with any capacity hint
SpecNew == InitNew /\ [][Next]_vars

\* the values of a status byte (u8) and the three status codes
StatusBytes == 0..255
StatusCodes == {EMPTY, DELETED, OCCUPIED}

\* a compact table whose status bytes hold any content
InitStatus ==
    \E byte \in StatusBytes :
        /\ probing = OaNew(TestHint)
        /\ compact = [CNew(TestHint) EXCEPT
                          !.status_bits = [b \in DOMAIN CNew(TestHint).status_bits |-> byte]]
        /\ chained = ChNew(TestHint)
        /\ last = [op |-> "new", key |-> TestHint, value |-> 0,
                   ok |-> [e \in Engines |-> TRUE],
                   size0 |-> [e \in Engines |-> 0],
                   capacity0 |-> [e \in Engines |-> 0],
                   resized |-> [e \in Engines |-> FALSE]]
        /\ written = [e \in Engines |-> [k \in Keys |-> None]]
        /\ ops = 0
        /\ nfill = 0
        /\ ndel = 0

\* a call of set_status(index, status) on the compact table
SetStatusCall ==
    \E index \in 0..(compact.capacity - 1), status \in StatusCodes :
        /\ ops < MaxSetStatus
        /\ compact' = SetStatus(compact, index, status)
        /\ last' = [last EXCEPT !.op = "set_status", !.key = index, !.value = status]
        /\ ops' = ops + 1
        /\ UNCHANGED <<probing, chained, written, nfill, ndel>>

\* set_status calls on status bytes of any content
SpecStatus == InitStatus /\ [][SetStatusCall]_vars

\* calls of insert and delete with keys that share a bucket
BucketInsert ==
    \E key \in BucketKeys, value \in Vals :
        /\ ops < MaxBucketOps
        /\ DoInsert(key, value)
        /\ ops' = ops + 1
        /\ UNCHANGED <<nfill, ndel>>

BucketDelete ==
    \E key \in BucketKeys :
        /\ ops < MaxBucketOps
        /\ DoDelete(key)
        /\ ops' = ops + 1
        /\ UNCHANGED <<nfill, ndel>>

NextBucket ==
    \/ BucketInsert
    \/ BucketDelete
    \/ nfill < MaxBucketFill /\ FillInsert
    \/ FillDelete

\* the calls of a caller whose keys collide
SpecBucket == Init /\ [][NextBucket]_vars

\* main.rs: the variable probing holds the standalone table, which has
\* the fields of the probing table; the other two tables stay as made
InitMain ==
    /\ probing = MainNew(TestHint)
    /\ compact = CNew(TestHint)
    /\ chained = ChNew(TestHint)
    /\ last = [op |-> "new", key |-> TestHint, value |-> 0,
               ok |-> [e \in Engines |-> TRUE],
               size0 |-> [e \in Engines |-> 0],
               capacity0 |-> [e \in Engines |-> 0],
               resized |-> [e \in Engines |-> FALSE]]
    /\ written = [e \in Engines |-> [k \in Keys |-> None]]
    /\ ops = 0
    /\ nfill = 0
    /\ ndel = 0

\* insert(key, value) and delete(key) on the standalone table
MainDoInsert(key, value) ==
    LET r == MainInsert(probing, key, value)
    IN  /\ probing' = r.self
        /\ last' = [op |-> "insert", key |-> key, value |-> value,
                    ok |-> [e \in Engines |-> r.ok],
                    size0 |-> Sizes,
                    capacity0 |-> Capacities,
                    resized |-> [e \in Engines |-> LoadFactorReached(probing)]]
        /\ written' = [written EXCEPT
                           !.probing[key] = IF r.ok THEN Some(value) ELSE None]
        /\ UNCHANGED <<compact, chained>>

MainDoDelete(key) ==
    LET r == MainDelete(probing, key)
    IN  /\ probing' = r.self
        /\ last' = [op |-> "delete", key |-> key, value |-> 0,
                    ok |-> [e \in Engines |-> r.ok],
                    size0 |-> Sizes,
                    capacity0 |-> Capacities,
                    resized |-> [e \in Engines |-> FALSE]]
        /\ written' = [written EXCEPT !.probing[key] = None]
        /\ UNCHANGED <<compact, chained>>

\* the insert loop of the tests of main.rs
MainFillInsert ==
    /\ nfill < NumFill
    /\ MainDoInsert(FillKey(nfill + 1), FillValue(nfill + 1))
    /\ nfill' = nfill + 1
    /\ UNCHANGED <<ops, ndel>>

\* a delete loop over the workload keys, oldest first
MainFillDelete ==
    /\ ndel < nfill
    /\ ndel < MaxFillDel
    /\ MainDoDelete(FillKey(ndel + 1))
    /\ ndel' = ndel + 1
    /\ UNCHANGED <<ops, nfill>>

\* calls with a freely chosen key, as in fn main
MainFreeInsert ==
    \E key \in TestKeys, value \in Vals :
        /\ ops < MaxOps
        /\ MainDoInsert(key, value)
        /\ ops' = ops + 1
        /\ UNCHANGED <<nfill, ndel>>

MainFreeDelete ==
    \E key \in TestKeys :
        /\ ops < MaxOps
        /\ MainDoDelete(key)
        /\ ops' = ops + 1
        /\ UNCHANGED <<nfill, ndel>>

NextMain == MainFillInsert \/ MainFillDelete \/ MainFreeInsert \/ MainFreeDelete

\* the calls on the standalone table of main.rs
SpecMain == InitMain /\ [][NextMain]_vars

\* a workload of mixed deletes and inserts: the next new key is inserted
ChurnInsert ==
    /\ nfill < NumChurn
    /\ DoInsert(FillKey(nfill + 1), FillValue(nfill + 1))
    /\ nfill' = nfill + 1
    /\ UNCHANGED <<ops, ndel>>

\* ... or the oldest key still held is deleted
ChurnDelete ==
    /\ ndel < nfill
    /\ ndel < MaxChurnDel
    /\ DoDelete(FillKey(ndel + 1))
    /\ ndel' = ndel + 1
    /\ UNCHANGED <<ops, nfill>>

NextChurn ==
    \/ ChurnInsert
    \/ ChurnDelete
    \/ ops < MaxChurnOps /\ Insert
    \/ ops < MaxChurnOps /\ Delete

\* the calls of a workload that leaves tombstones all over the table
SpecChurn == Init /\ [][NextChurn]_vars

(***************************************************************************)
(* What a caller observes, and what the tables hold.                       *)
(***************************************************************************)
\* the slots of the probing table t that are Occupied by key k
OaSlotsOf(t, k) ==
    {i \in DOMAIN t.data : t.data[i][1] = "Occupied" /\ t.data[i][2] = k}

\* the slots of the compact table t that are OCCUPIED by key k
CSlotsOf(t, k) ==
    {i \in 0..(t.capacity - 1) : GetStatus(t, i) = OCCUPIED /\ t.entries[i][1] = k}

\* the keys stored in the buckets of the chained table t
ChKeys(t) ==
    UNION {{t.buckets[i][j][1] : j \in DOMAIN t.buckets[i]} : i \in DOMAIN t.buckets}

\* the smallest power of two that is at least n
PowersOfTwo == {Pow2(e) : e \in 0..10}
SmallestPowerOfTwoAtLeast(n) ==
    CHOOSE p \in PowersOfTwo :
        p >= n /\ \A q \in PowersOfTwo : q >= n => p <= q

Max(a, b) == IF a >= b THEN a ELSE b

(***************************************************************************)
(* C1..C10                                                                 *)
(***************************************************************************)

\* C1 (probing table): after insert(k, v) returned Ok, get(k) returns
\* Some(v), until the next insert(k, _) or delete(k).
C1_RoundTripProbing ==
    \A k \in Keys :
        written.probing[k] # None => OaGet(probing, k) = Ok(written.probing[k])

\* C2 (probing table): insert(k, v1) directly followed by insert(k, v2)
\* leaves get(k) = Some(v2), and size has grown by at most one over the two
\* inserts.
C2_UpsertProbing ==
    [][(/\ last.op = "insert" /\ last.ok.probing
        /\ last'.op = "insert" /\ last'.ok.probing
        /\ last'.key = last.key)
       => (/\ OaGet(probing', last'.key) = Ok(Some(last'.value))
           /\ probing'.size <= last.size0.probing + 1)]_vars

\* C3 (probing table): after delete(k) returned Ok, get(k) returns None and
\* get(j) is what it was before the call for every other key j.
C3_DeleteProbing ==
    [][(last'.op = "delete" /\ last'.ok.probing)
       => (/\ OaGet(probing', last'.key) = Ok(None)
           /\ \A j \in Keys \ {last'.key} :
                  OaGet(probing', j) = OaGet(probing, j))]_vars

\* C4 (compact table): after delete(k) returned Ok, get(k) returns None and
\* get(j) is what it was before the call for every other key j, also in
\* states that hold tombstones.
C4_DeleteCompact ==
    [][(last'.op = "delete" /\ last'.ok.compact)
       => (/\ CGet(compact', last'.key) = Ok(None)
           /\ \A j \in Keys \ {last'.key} :
                  CGet(compact', j) = CGet(compact, j))]_vars

\* C5 (compact table): insert(k, v) of a key that is live changes neither a
\* status code nor size (outside a resize), and no key is ever held by two
\* OCCUPIED slots.
C5_UpsertCompact ==
    [][/\ \A k \in Keys : Cardinality(CSlotsOf(compact', k)) <= 1
       /\ (/\ last'.op = "insert" /\ last'.ok.compact
           /\ CSlotsOf(compact, last'.key) # {}
           /\ ~last'.resized.compact)
          => (/\ compact'.status_bits = compact.status_bits
              /\ compact'.size = compact.size)]_vars

\* C6 (compact table): after insert(k, v) returned Ok, get(k) returns
\* Some(v), until the next insert(k, _), delete(k) or insert that resizes.
C6_RoundTripCompact ==
    \A k \in Keys :
        written.compact[k] # None => CGet(compact, k) = Ok(written.compact[k])

\* C6 happens: the key just written is also held, with an older value, by a
\* second OCCUPIED slot further along its probe sequence.
C6_Witness ==
    /\ last.op = "insert" /\ last.ok.compact
    /\ written.compact[last.key] = Some(last.value)
    /\ \E i \in CSlotsOf(compact, last.key) : compact.entries[i][2] # last.value

\* C7 (chained table): get(k) is the value of the latest insert(k, v) not
\* followed by delete(k), and None without one, also after resizes.
C7_ChainedIsMap ==
    \A k \in Keys : ChGet(chained, k) = Ok(written.chained[k])

\* C7 happens: the table has been resized, and it holds a key that was
\* written twice and lacks a key that was deleted.
C7_Witness ==
    /\ chained.capacity > InitialCapacity(TestHint)
    /\ ndel >= 1 /\ written.chained[FillKey(1)] = None
    /\ \E k \in TestKeys : written.chained[k] # None
    /\ ops >= 2

\* C8 (chained table): size is the number of distinct keys stored in the
\* buckets.
C8_ChainedSize == chained.size = Cardinality(ChKeys(chained))

\* C9 (all engines): when an insert call has completed, 10 * size <= 7 *
\* capacity.
C9_LoadFactorAfterInsert ==
    last.op = "insert" =>
        /\ LOAD_FACTOR_DEN * probing.size <= LOAD_FACTOR_NUM * probing.capacity
        /\ LOAD_FACTOR_DEN * compact.size <= LOAD_FACTOR_NUM * compact.capacity
        /\ LOAD_FACTOR_DEN * chained.size <= LOAD_FACTOR_NUM * chained.capacity

\* C9 as amended (all engines): when an insert call has completed, the
\* load factor was below the threshold before the entry was placed:
\* 10 * (size - 1) < 7 * capacity.
C9_LoadFactorBeforePlacement ==
    last.op = "insert" =>
        /\ LOAD_FACTOR_DEN * (probing.size - 1) < LOAD_FACTOR_NUM * probing.capacity
        /\ LOAD_FACTOR_DEN * (compact.size - 1) < LOAD_FACTOR_NUM * compact.capacity
        /\ LOAD_FACTOR_DEN * (chained.size - 1) < LOAD_FACTOR_NUM * chained.capacity

\* C9 happens: an insert has just resized the three tables.
C9_Witness ==
    /\ last.op = "insert"
    /\ \A e \in Engines : last.ok[e] /\ last.resized[e]

\* C10 (all engines): new(hint) yields the smallest power of two that is at
\* least max(hint, 16) as capacity, and size 0; afterwards capacity is a
\* power of two, at least 16, and size <= capacity.
C10_Capacity ==
    /\ last.op = "new" =>
           \A e \in Engines :
               /\ Capacities[e] = SmallestPowerOfTwoAtLeast(Max(last.key, 16))
               /\ Sizes[e] = 0
    /\ \A e \in Engines :
           /\ Capacities[e] \in PowersOfTwo
           /\ Capacities[e] >= 16
           /\ Sizes[e] <= Capacities[e]

\* C10 happens: new was called with a hint between two powers of two above
\* 16, and rounded it up.
C10_Witness ==
    /\ last.op = "new" /\ last.key = 33
    /\ \A e \in Engines : Capacities[e] = 64 /\ Sizes[e] = 0


\* ---- C11 ----
\* one engine's table before a step, by name
TableOf(e) == IF e = "probing" THEN probing ELSE IF e = "compact" THEN compact ELSE chained

\* C11: in every engine a step changes the capacity only if it is an
\* insert that found 10 * size >= 7 * capacity on entry, and such an
\* insert leaves exactly twice the capacity (the re-insertions of the
\* chained resize never resize again); a delete leaves the capacity as it
\* was.  get takes &self and is an operator of the model: it has no next
\* state to change.
C11_CapacityChange ==
    [][\A e \in Engines :
          /\ Capacities'[e] # Capacities[e] =>
                 /\ last'.op = "insert"
                 /\ LoadFactorReached(TableOf(e))
          /\ last'.op = "insert" /\ LoadFactorReached(TableOf(e)) =>
                 Capacities'[e] = 2 * Capacities[e]
          /\ last'.op = "delete" => Capacities'[e] = Capacities[e]]_vars

\* the chained table has just resized on a size that counts deleted keys:
\* fewer nodes than the old size were re-inserted
C11_Witness ==
    /\ last.op = "insert"
    /\ last.resized.chained
    /\ ~last.resized.probing
    /\ chained.capacity = 2 * last.capacity0.chained
    /\ chained.size < last.size0.chained

\* ---- C12 ----
\* no slot of the probing table, no status code of the compact table is
\* Empty: every probe sequence runs a full cycle unless it meets its key
OaSaturated(t) == \A i \in DOMAIN t.data : t.data[i][1] # "Empty"
CSaturated(t) == \A i \in 0..(t.capacity - 1) : GetStatus(t, i) # EMPTY

\* C12: an insert into the probing or the compact table never returns Err
\* ("cannot be inserted" / "HashMap is full"), also when tombstones have
\* used up every Empty slot.
C12_InsertNeverFull ==
    last.op = "insert" => last.ok.probing /\ last.ok.compact

\* an insert has succeeded in tables that have no Empty slot left and
\* have not resized: it was placed in a tombstone
C12_Witness ==
    /\ last.op = "insert"
    /\ last.ok.probing /\ last.ok.compact
    /\ ~last.resized.probing /\ ~last.resized.compact
    /\ OaSaturated(probing) /\ CSaturated(compact)
    /\ ndel = MaxChurnDel

\* ---- C13 ----
\* C13: a delete of a key that no slot holds returns Ok from the probing
\* and from the compact table and leaves the table as it was, however
\* many Empty slots remain.
C13_DeleteAbsent ==
    [][last'.op = "delete" =>
          /\ OaSlotsOf(probing, last'.key) = {} =>
                 last'.ok.probing /\ probing' = probing
          /\ CSlotsOf(compact, last'.key) = {} =>
                 last'.ok.compact /\ compact' = compact]_vars

\* ---- C14 ----
\* C14: an insert or delete that returns Err leaves its table exactly as
\* it was: size, capacity and every slot, bucket and status code.
C14_ErrChangesNothing ==
    [][\A e \in Engines :
          (last'.op \in {"insert", "delete"} /\ ~last'.ok[e]) =>
              TableOf(e)' = TableOf(e)]_vars

\* a call has just returned Err from the probing and the compact table
C14_Witness ==
    /\ last.op = "delete"
    /\ ~last.ok.probing /\ ~last.ok.compact
    /\ OaSaturated(probing) /\ CSaturated(compact)

\* ---- C15 ----
\* C15: whatever the status bytes held, after set_status(i, s) with one
\* of the three codes get_status(i) is s and get_status(j) is what it was
\* for every other slot j.
C15_StatusIndependence ==
    [][last'.op = "set_status" =>
          /\ GetStatus(compact', last'.key) = last'.value
          /\ \A j \in 0..(compact.capacity - 1) \ {last'.key} :
                 GetStatus(compact', j) = GetStatus(compact, j)]_vars

\* set_status has cleared a slot to EMPTY next to slots of the same byte
\* that hold the unused code 2
C15_Witness ==
    /\ last.op = "set_status"
    /\ last.value = EMPTY
    /\ GetStatus(compact, last.key) = EMPTY
    /\ \A j \in 0..(compact.capacity - 1) \ {last.key} : GetStatus(compact, j) = 2

\* ---- C16 ----
\* C16: on a fresh table, for two keys A and B with the same starting
\* index, after insert(A, _), delete(A), insert(B, vB) the probing and the
\* compact table return Some(vB) for B and None for A.  The two keys are
\* Key1 and a freely chosen key, in either role; in the second role the
\* two calls with A before insert(B, vB) are any that leave A deleted.
C16_Tombstone ==
    \A k \in TestKeys :
        /\ Hash(probing, k) = Hash(probing, FillKey(1))
        /\ (/\ nfill = 1 /\ ndel = 1 /\ ops = 1
            /\ last.op = "insert" /\ last.key = k) =>
               /\ OaGet(probing, k) = Ok(Some(last.value))
               /\ OaGet(probing, FillKey(1)) = Ok(None)
               /\ CGet(compact, k) = Ok(Some(last.value))
               /\ CGet(compact, FillKey(1)) = Ok(None)
        /\ (/\ nfill = 1 /\ ndel = 0 /\ ops = 2
            /\ last.op = "insert" /\ last.key = FillKey(1)
            /\ written.chained[k] = None) =>
               /\ OaGet(probing, FillKey(1)) = Ok(Some(last.value))
               /\ OaGet(probing, k) = Ok(None)
               /\ CGet(compact, FillKey(1)) = Ok(Some(last.value))
               /\ CGet(compact, k) = Ok(None)

\* insert(Key1, _), delete(Key1), insert(k, v) have run and k sits in the
\* slot that was Key1's tombstone
C16_Witness ==
    /\ nfill = 1 /\ ndel = 1 /\ ops = 1
    /\ last.op = "insert" /\ last.key \in TestKeys
    /\ probing.data[Hash(probing, FillKey(1))] = Occupied(last.key, last.value)
    /\ GetStatus(compact, Hash(compact, FillKey(1))) = OCCUPIED
    /\ compact.entries[Hash(compact, FillKey(1))][1] = last.key

\* ---- C17 ----
\* C17: after the same calls on tables made with the same capacity hint
\* the three engines cannot be told apart: every get returns the same
\* Option and the last insert or delete returned the same Ok/Err outcome.
C17_Interchangeable ==
    /\ \A k \in Keys :
           /\ OaGet(probing, k) = ChGet(chained, k)
           /\ CGet(compact, k) = ChGet(chained, k)
    /\ last.ok.probing = last.ok.chained
    /\ last.ok.compact = last.ok.chained

\* ---- C18 ----
\* C18: an insert(k', v') that makes the compact table resize leaves
\* get(k) as it was for every other key k.
C18_ResizeTransparent ==
    [][(last'.op = "insert" /\ LoadFactorReached(compact)) =>
          \A k \in Keys \ {last'.key} : CGet(compact', k) = CGet(compact, k)]_vars

\* ---- C19 ----
\* the slots that linear probing visits from slot h up to slot i
ProbePath(capacity, h, i) ==
    {(h + d) % capacity : d \in 0..((i - h + capacity) % capacity)}

\* C19: in the probing table each key is held by at most one Occupied
\* slot, and no Empty slot lies on the probe path from hash(key) mod
\* capacity to that slot.
C19_OneSlotPerKey ==
    \A k \in Keys :
        /\ Cardinality(OaSlotsOf(probing, k)) <= 1
        /\ \A i \in OaSlotsOf(probing, k) :
               \A j \in ProbePath(probing.capacity, Hash(probing, k), i) :
                   probing.data[j][1] # "Empty"

\* ---- C20 ----
\* the positions <<bucket, node>> of the chained table t that hold key k
ChPositionsOf(t, k) ==
    {p \in UNION {{<<i, j>> : j \in DOMAIN t.buckets[i]} : i \in DOMAIN t.buckets} :
        t.buckets[p[1]][p[2]][1] = k}

\* C20: in the chained table each key is held by at most one node, and
\* that node is in the bucket at index hash(key) mod capacity for the
\* current capacity.
C20_OneNodePerKey ==
    \A k \in Keys :
        /\ Cardinality(ChPositionsOf(chained, k)) <= 1
        /\ \A p \in ChPositionsOf(chained, k) : p[1] = Hash(chained, k)

\* the chained table has resized and holds a key in a bucket that the old
\* capacity did not have, and the last insert found its key in the list
\* and updated the node in place
C20_Witness ==
    /\ chained.capacity = 2 * InitialCapacity(TestHint)
    /\ \E k \in FillKeys : \E p \in ChPositionsOf(chained, k) :
           p[1] >= InitialCapacity(TestHint)
    /\ last.op = "insert"
    /\ ~last.resized.chained
    /\ chained.size = last.size0.chained

\* ---- C21 ----
\* the number of Occupied slots of a probing table, of OCCUPIED status
\* codes of a compact table
OaOccupied(t) == Cardinality({i \in DOMAIN t.data : t.data[i][1] = "Occupied"})
COccupied(t) == Cardinality({i \in 0..(t.capacity - 1) : GetStatus(t, i) = OCCUPIED})

\* size is the number of Occupied slots, and the resize that the next
\* insert runs keeps both
C21_SizeIsOccupied ==
    /\ probing.size = OaOccupied(probing)
    /\ compact.size = COccupied(compact)
    /\ LoadFactorReached(probing) =>
           /\ OaResize(probing).size = probing.size
           /\ OaOccupied(OaResize(probing)) = OaOccupied(probing)
    /\ LoadFactorReached(compact) =>
           /\ CResize(compact).size = compact.size
           /\ COccupied(CResize(compact)) = COccupied(compact)

\* an insert raises size by one or leaves it, a delete lowers it by one or
\* leaves it, each by the change in the number of Occupied slots, and
\* `size -= 1` runs only on a size of at least 1
C21_SizeStep ==
    /\ last'.op = "insert" =>
           /\ probing'.size - probing.size \in {0, 1}
           /\ probing'.size - probing.size = OaOccupied(probing') - OaOccupied(probing)
           /\ compact'.size - compact.size \in {0, 1}
           /\ compact'.size - compact.size = COccupied(compact') - COccupied(compact)
    /\ last'.op = "delete" =>
           /\ probing'.size - probing.size \in {0, -1}
           /\ probing'.size - probing.size = OaOccupied(probing') - OaOccupied(probing)
           /\ probing'.size < probing.size => probing.size >= 1
           /\ compact'.size - compact.size \in {0, -1}
           /\ compact'.size - compact.size = COccupied(compact') - COccupied(compact)
           /\ compact'.size < compact.size => compact.size >= 1

\* C21: in the probing and the compact table size is the number of
\* Occupied slots in every state; insert raises it by one exactly when a
\* slot becomes Occupied, delete lowers it by one exactly when a slot
\* stops being Occupied, resize leaves it, and size is never lowered
\* from 0.
C21_SizeCountsOccupied == []C21_SizeIsOccupied /\ [][C21_SizeStep]_vars

\* a delete has just lowered the size of tables that have resized and
\* hold a key in two slots
C21_Witness ==
    /\ last.op = "delete"
    /\ probing.size = last.size0.probing - 1
    /\ compact.size = last.size0.compact - 1
    /\ probing.capacity > InitialCapacity(TestHint)
    /\ \E k \in TestKeys : Cardinality(OaSlotsOf(probing, k)) >= 2

\* ---- C22 ----
\* the slots of the probing table t that are Occupied by key k with value v
OaSlotsOfPair(t, k, v) == {i \in DOMAIN t.data : t.data[i] = Occupied(k, v)}

\* the (key, value) pairs held in the Occupied slots of the probing table t
OaPairs(t) ==
    {<<t.data[i][2], t.data[i][3]>> :
        i \in {j \in DOMAIN t.data : t.data[j][1] = "Occupied"}}

\* C22: the resize that the next insert of the probing table runs keeps
\* the multiset of (key, value) pairs of the Occupied slots, places each
\* where probing from its new start index reaches it without crossing an
\* Empty slot, leaves no Deleted slot and does not change size.
C22_ResizeProbing ==
    LoadFactorReached(probing) =>
        LET new == OaResize(probing)
        IN  /\ new.capacity = 2 * probing.capacity
            /\ DOMAIN new.data = 0..(new.capacity - 1)
            /\ \A p \in OaPairs(probing) \cup OaPairs(new) :
                   Cardinality(OaSlotsOfPair(new, p[1], p[2])) =
                       Cardinality(OaSlotsOfPair(probing, p[1], p[2]))
            /\ \A i \in DOMAIN new.data :
                   /\ new.data[i][1] # "Deleted"
                   /\ new.data[i][1] = "Occupied" =>
                          \A j \in ProbePath(new.capacity, Hash(new, new.data[i][2]), i) :
                              new.data[j][1] # "Empty"
            /\ new.size = probing.size

\* the probing table is about to resize while it holds a tombstone and
\* the same (key, value) pair in two slots
C22_Witness ==
    /\ LoadFactorReached(probing)
    /\ \E i \in DOMAIN probing.data : probing.data[i][1] = "Deleted"
    /\ \E p \in OaPairs(probing) : Cardinality(OaSlotsOfPair(probing, p[1], p[2])) = 2

\* ---- C23 ----
\* the number of slots that get(k) and delete(k) examine in each table
OaGetCost(k) == OaGetProbes(probing, k, Hash(probing, k), Hash(probing, k), 0)
OaDeleteCost(k) == OaDeleteProbes(probing, k, Hash(probing, k), Hash(probing, k), 0)
CGetCost(k) == CGetProbes(compact, k, Hash(compact, k), Hash(compact, k), 0)
CDeleteCost(k) == CDeleteProbes(compact, k, Hash(compact, k), Hash(compact, k), 0)

\* C23: in the probing and the compact table get and delete return after
\* examining at most capacity slots, also when no slot is Empty, and in
\* such a table get of a key that no slot holds returns Ok(None).
C23_ProbesBounded ==
    \A k \in Keys :
        /\ OaGetCost(k) <= probing.capacity
        /\ OaDeleteCost(k) <= probing.capacity
        /\ CGetCost(k) <= compact.capacity
        /\ CDeleteCost(k) <= compact.capacity
        /\ (OaSaturated(probing) /\ OaSlotsOf(probing, k) = {}) =>
               OaGet(probing, k) = Ok(None)
        /\ (CSaturated(compact) /\ CSlotsOf(compact, k) = {}) =>
               CGet(compact, k) = Ok(None)

\* no slot is Empty, and get of a key that was never inserted examines
\* every slot of both tables
C23_Witness ==
    /\ OaSaturated(probing) /\ CSaturated(compact)
    /\ \E k \in TestKeys :
           /\ ops = 0
           /\ OaGetCost(k) = probing.capacity
           /\ CGetCost(k) = compact.capacity
           /\ OaGet(probing, k) = Ok(None)

\* ---- C24 ----
\* the table has never resized, its size is below 0.7 * capacity, and no
\* slot is Empty
OaTombstoneSaturated ==
    /\ probing.capacity = InitialCapacity(TestHint)
    /\ ~LoadFactorReached(probing)
    /\ OaSaturated(probing)
CTombstoneSaturated ==
    /\ compact.capacity = InitialCapacity(TestHint)
    /\ ~LoadFactorReached(compact)
    /\ CSaturated(compact)

\* C24: inserts and deletes reach, without any resize, a probing and a
\* compact table whose size is below 0.7 * capacity and that have no
\* Empty slot; there get and delete of a key that no slot holds examine
\* all capacity slots.
C24_TombstoneSaturation ==
    \A k \in Keys :
        /\ (OaTombstoneSaturated /\ OaSlotsOf(probing, k) = {}
                /\ \A i \in DOMAIN probing.data : probing.data[i] # Deleted(k)) =>
               /\ OaGetCost(k) = probing.capacity
               /\ OaDeleteCost(k) = probing.capacity
        /\ (CTombstoneSaturated /\ CSlotsOf(compact, k) = {}) =>
               /\ CGetCost(k) = compact.capacity
               /\ CDeleteCost(k) = compact.capacity

\* such a state: eleven keys and five tombstones in sixteen slots, and a
\* key that was never inserted
C24_Witness ==
    /\ OaTombstoneSaturated /\ CTombstoneSaturated
    /\ probing.size = 11 /\ compact.size = 11
    /\ ops = 0
    /\ \E k \in TestKeys : OaDeleteCost(k) = probing.capacity /\ CDeleteCost(k) = compact.capacity

\* ---- C25 ----
\* the kind of slot i of each table: "Empty", "Deleted" or "Occupied"
OaKind(t, i) == t.data[i][1]
CKind(t, i) ==
    IF GetStatus(t, i) = EMPTY THEN "Empty"
    ELSE IF GetStatus(t, i) = DELETED THEN "Deleted"
    ELSE IF GetStatus(t, i) = OCCUPIED THEN "Occupied"
    ELSE "Invalid"

\* the change of kind that a call of name op may make to a slot
KindStep(op, before, after) ==
    \/ after = before
    \/ op = "insert" /\ before \in {"Empty", "Deleted"} /\ after = "Occupied"
    \/ op = "delete" /\ before = "Occupied" /\ after = "Deleted"

\* C25: in a step of the probing or the compact table that does not
\* resize, a slot that is Occupied or Deleted does not become Empty: a
\* delete only turns an Occupied slot into Deleted, an insert only turns
\* an Empty or Deleted slot into Occupied.  get takes &self and is an
\* operator of the model: it has no next state.
C25_NeverEmptyAgain ==
    [][/\ probing'.capacity = probing.capacity =>
              \A i \in DOMAIN probing.data :
                  /\ KindStep(last'.op, OaKind(probing, i), OaKind(probing', i))
                  /\ OaKind(probing, i) # "Empty" => OaKind(probing', i) # "Empty"
       /\ compact'.capacity = compact.capacity =>
              \A i \in 0..(compact.capacity - 1) :
                  /\ KindStep(last'.op, CKind(compact, i), CKind(compact', i))
                  /\ CKind(compact, i) # "Empty" => CKind(compact', i) # "Empty"]_vars

\* a delete has just turned the slot of its key into a tombstone in both
\* tables, next to an older tombstone
C25_Witness ==
    /\ last.op = "delete"
    /\ \E i \in DOMAIN probing.data : probing.data[i] = Deleted(last.key)
    /\ \E i \in DOMAIN probing.data :
           probing.data[i][1] = "Deleted" /\ probing.data[i] # Deleted(last.key)
    /\ Cardinality({i \in 0..(compact.capacity - 1) : GetStatus(compact, i) = DELETED}) >= 2
    /\ compact.size = last.size0.compact - 1

\* ---- C26 ----
\* C26: the compact table has ceil(capacity / 4) status bytes and
\* capacity entries, every slot's code is EMPTY, DELETED or OCCUPIED,
\* and no get, insert or delete reaches its arm for other codes, also in
\* the state an insert leaves after it has resized.
C26_StatusWellFormed ==
    /\ DOMAIN compact.status_bits = 0..(((compact.capacity + 3) \div 4) - 1)
    /\ DOMAIN compact.entries = 0..(compact.capacity - 1)
    /\ \A b \in DOMAIN compact.status_bits : compact.status_bits[b] \in StatusBytes
    /\ \A i \in 0..(compact.capacity - 1) : GetStatus(compact, i) \in StatusCodes
    /\ \A k \in Keys : CGet(compact, k).ok
    /\ \A k \in TestKeys :
           /\ ~CDelete(compact, k).panic
           /\ ~CInsert(compact, k, DefaultValue).panic

\* an insert has just resized the compact table, and two slots of one
\* status byte of the new array are OCCUPIED
C26_Witness ==
    /\ last.op = "insert"
    /\ last.resized.compact
    /\ compact.capacity = 2 * last.capacity0.compact
    /\ \E i, j \in 0..(compact.capacity - 1) :
           /\ i # j /\ i \div 4 = j \div 4
           /\ GetStatus(compact, i) = OCCUPIED
           /\ GetStatus(compact, j) = OCCUPIED

\* ---- C27 ----
\* the list without its j-th node
WithoutNode(list, j) == SubSeq(list, 1, j - 1) \o SubSeq(list, j + 1, Len(list))

\* the positions of the nodes of list that hold key k
NodesOf(list, k) == {j \in DOMAIN list : list[j][1] = k}

\* the smallest number of a non-empty set of numbers
Least(S) == CHOOSE j \in S : \A i \in S : j <= i

\* C27: in the chained table an insert that does not resize appends a
\* new key at the tail of its bucket and changes only the value of a key
\* that the bucket holds; a delete removes only the first node with the
\* key; the other nodes of the bucket keep their order and the other
\* buckets are unchanged.
C27_BucketFrame ==
    [][LET k == last'.key
           b == Hash(chained, k)
           old == chained.buckets[b]
           new == chained'.buckets[b]
       IN  /\ (last'.op = "insert" /\ ~LoadFactorReached(chained)) =>
                 /\ NodesOf(old, k) = {} => new = Append(old, <<k, last'.value>>)
                 /\ NodesOf(old, k) # {} =>
                        new = [old EXCEPT ![Least(NodesOf(old, k))] = <<k, last'.value>>]
                 /\ \A i \in DOMAIN chained.buckets \ {b} :
                        chained'.buckets[i] = chained.buckets[i]
           /\ last'.op = "delete" =>
                 /\ NodesOf(old, k) = {} => new = old
                 /\ NodesOf(old, k) # {} => new = WithoutNode(old, Least(NodesOf(old, k)))
                 /\ \A i \in DOMAIN chained.buckets \ {b} :
                        chained'.buckets[i] = chained.buckets[i]]_vars

\* a delete has just removed one of the three nodes of a bucket: the
\* bucket of the deleted key holds Key1 and the other colliding key, and
\* the compact table, given the same calls, has lost a key as well
C27_Witness ==
    /\ last.op = "delete" /\ last.key \in BucketKeys
    /\ LET list == chained.buckets[Hash(chained, last.key)]
       IN  /\ Len(list) = 2
           /\ NodesOf(list, last.key) = {}
           /\ NodesOf(list, FillKey(1)) # {}
           /\ \E k \in BucketKeys : NodesOf(list, k) # {}
    /\ compact.size = last.size0.compact - 1

\* ---- C28 ----
\* the number of nodes stored in the buckets of the chained table t
RECURSIVE ChCountFrom(_, _)
ChCountFrom(t, i) ==
    IF i \notin DOMAIN t.buckets THEN 0 ELSE Len(t.buckets[i]) + ChCountFrom(t, i + 1)
ChCount(t) == ChCountFrom(t, 0)

\* size is at least the number of nodes, and the resize that the next
\* insert runs leaves size equal to the number of nodes, all of them
\* re-inserted
C28_SizeAtLeastNodes ==
    /\ chained.size >= ChCount(chained)
    /\ LoadFactorReached(chained) =>
           /\ ChResize(chained).size = ChCount(ChResize(chained))
           /\ ChCount(ChResize(chained)) = ChCount(chained)

\* size goes down only in an insert that resizes, and that insert leaves
\* size equal to the number of nodes
C28_SizeStep ==
    /\ chained'.size < chained.size =>
           last'.op = "insert" /\ LoadFactorReached(chained)
    /\ (last'.op = "insert" /\ LoadFactorReached(chained)) =>
           chained'.size = ChCount(chained')

\* C28: in the chained table size is at least the number of stored
\* nodes in every state, size decreases only inside resize, and right
\* after resize has re-inserted the nodes size is exactly their number.
C28_ChainedSizeBound == []C28_SizeAtLeastNodes /\ [][C28_SizeStep]_vars

\* an insert has just resized a table whose size counted deleted keys:
\* size has dropped to the number of nodes
C28_Witness ==
    /\ last.op = "insert"
    /\ last.resized.chained
    /\ chained.size = ChCount(chained)
    /\ chained.size < last.size0.chained
    /\ ndel >= 1

\* ---- C29 ----
\* C29 (standalone table of main.rs): after inserts of distinct keys
\* only, resizes among them, get returns every inserted key's value.
C29_MainResizeKeepsKeys ==
    (ops = 0 /\ ndel = 0) =>
        \A i \in 1..nfill : MainGet(probing, FillKey(i)) = Ok(Some(FillValue(i)))

=========================================================================
